---- MODULE Spec2Model ----
\* A model of backup/model/snapshots.py: the per-source record AbstractSnapshot
\* and the aggregate Snapshot (merged view, status, purge flags, upload tracking).
EXTENDS Integers, Sequences, FiniteSets, TLC

VARIABLES
    self,       \* the Snapshot object: one field per attribute set in __init__
    ui,         \* the uploadInfo() call: its position, the value it returns
    lastOp,     \* history: the name of the method that acted last
    ovHist,     \* history: what the last overrideStatus/clearStatus call asked for
    upHist,     \* history: the setUploadSource/uploadFailure calls since the last clear
    srcHist     \* history: the record last added per source, the first options seen

vars == <<self, ui, lastOp, ovHist, upHist, srcHist>>

-----------------------------------------------------------------------------
\* Python values. A value that may be None, an int or a str is a tagged record,
\* so that None, 0 and "" stay three different values.

PyNone == [t |-> "none", i |-> 0, s |-> ""]

PyInt(n) == [t |-> "int", i |-> n, s |-> ""]

PyStr(x) == [t |-> "str", i |-> 0, s |-> x]

\* An exception leaving the call, by its class name.
PyRaise(x) == [t |-> "raise", i |-> 0, s |-> x]

\* bool(v): None, 0 and "" are falsy, every other value is truthy.
Truthy(v) == ~(v.t = "none" \/ (v.t = "int" /\ v.i = 0) \/ (v.t = "str" /\ v.s = ""))

\* A str handed to int() is read character by character. The texts a size may
\* hold, as sequences of characters.
SizeTexts ==
    {<<"1", "2">>, <<" ", "1", "2", " ">>, <<"-", "3">>, <<"+", "4">>,
     <<"0", "7">>, <<"1", "_", "0">>, <<"1", "_", "_", "0">>, <<"1", ".", "5">>,
     <<"2", " ", "M", "B">>, <<"-">>, <<" ">>, <<>>}

RECURSIVE Text(_)
\* The str made of the characters cs.
Text(cs) == IF cs = <<>> THEN "" ELSE Head(cs) \o Text(Tail(cs))

\* The characters of the str x.
Chars(x) == CHOOSE cs \in SizeTexts : Text(cs) = x

DecimalDigits == <<"0", "1", "2", "3", "4", "5", "6", "7", "8", "9">>

IsDigit(c) == \E d \in 1..Len(DecimalDigits) : DecimalDigits[d] = c

DigitValue(c) == (CHOOSE d \in 1..Len(DecimalDigits) : DecimalDigits[d] = c) - 1

RECURSIVE Strip(_)
\* str.strip(), as int() applies it: the whitespace at both ends is dropped.
Strip(cs) ==
    IF cs = <<>> THEN cs
    ELSE IF Head(cs) = " " THEN Strip(Tail(cs))
    ELSE IF cs[Len(cs)] = " " THEN Strip(SubSeq(cs, 1, Len(cs) - 1))
    ELSE cs

\* A decimal literal: digits, with single underscores between digits.
IsDecimal(cs) ==
    /\ cs /= <<>>
    /\ \A k \in 1..Len(cs) :
          \/ IsDigit(cs[k])
          \/ cs[k] = "_" /\ 1 < k /\ k < Len(cs)
                /\ IsDigit(cs[k - 1]) /\ IsDigit(cs[k + 1])

RECURSIVE DecimalValue(_, _)
DecimalValue(cs, acc) ==
    IF cs = <<>> THEN acc
    ELSE IF Head(cs) = "_" THEN DecimalValue(Tail(cs), acc)
    ELSE DecimalValue(Tail(cs), 10 * acc + DigitValue(Head(cs)))

\* int(v) without a base: an int is returned as it is; a str is stripped, may
\* carry one sign and must then be a decimal literal, else ValueError; None is
\* not a type int() accepts, TypeError.
int(v) ==
    CASE v.t = "int" -> v
      [] v.t = "str" ->
            LET body == Strip(Chars(v.s))
                signed == body /= <<>> /\ Head(body) \in {"+", "-"}
                digits == IF signed THEN Tail(body) ELSE body
                value == DecimalValue(digits, 0)
            IN  IF IsDecimal(digits)
                THEN PyInt(IF signed /\ Head(body) = "-" THEN 0 - value ELSE value)
                ELSE PyRaise("ValueError")
      [] OTHER -> PyRaise("TypeError")

\* A dict (or None where a dict is expected): its items as <<key, value>> pairs.
NoDict == [none |-> TRUE, items |-> {}]

Dict(items) == [none |-> FALSE, items |-> items]

\* The well-known source identifiers of ..const, and one that is neither.
SOURCE_GOOGLE_DRIVE == "GoogleDrive"

SOURCE_HA == "HomeAssistant"

SOURCE_OTHER == "Other"

SourceIds == {SOURCE_GOOGLE_DRIVE, SOURCE_HA, SOURCE_OTHER}

-----------------------------------------------------------------------------
\* AbstractSnapshot: the constructor's fields, the options set by setOptions and
\* the value status() returns (None in the base class, a string in a subclass
\* that represents an ephemeral per-source state).

AbstractSnapshot(name, slug, source, date, size, version, snapshotType, protected, details) ==
    [options |-> PyNone, name |-> name, slug |-> slug, source |-> source,
     date |-> date, size |-> size, details |-> details, version |-> version,
     snapshotType |-> snapshotType, protected |-> protected, status |-> PyNone]

\* AbstractSnapshot.setOptions
recSetOptions(rec, options) == [rec EXCEPT !.options = options]

\* AbstractSnapshot.sizeInt: only the ValueError of int() is caught.
recSizeInt(rec) ==
    LET converted == int(rec.size)
    IN  IF converted = PyRaise("ValueError") THEN PyInt(0) ELSE converted

\* A subclass instance whose status() returns st.
WithStatus(rec, st) == [rec EXCEPT !.status = st]

\* The records the synchronization engine hands in: four per source identifier.
\* plain: no version, no details, no status, no options.
\* blank: empty version, empty details, empty status.
\* pending, creating: a version, details and a status of their own.
RecordKinds == {"plain", "blank", "pending", "creating"}

MakeRecord(source, kind) ==
    \* bare: a record built with None for name, slug, size and snapshotType.
    CASE kind = "bare" ->
            AbstractSnapshot(PyNone, PyNone, source, 50, PyNone, PyNone, PyNone, FALSE,
                             NoDict)
      [] kind = "plain" ->
            AbstractSnapshot(PyStr("Snapshot A"), PyStr("slugA"), source, 10, PyInt(1024),
                             PyNone, PyStr("full"), FALSE, NoDict)
      [] kind = "blank" ->
            recSetOptions(
                WithStatus(
                    AbstractSnapshot(PyStr("Snapshot B"), PyStr("slugB"), source, 20,
                                     PyStr("2 MB"), PyStr(""), PyStr("partial"), TRUE,
                                     Dict({})),
                    PyStr("")),
                PyStr("optionsA"))
      [] kind = "pending" ->
            recSetOptions(
                WithStatus(
                    AbstractSnapshot(PyStr("Snapshot C"), PyStr("slugC"), source, 30,
                                     PyInt(2048), PyStr("0.100"), PyStr("full"), TRUE,
                                     Dict({<<"addons", "mqtt">>})),
                    PyStr("Pending")),
                PyStr("optionsB"))
      [] OTHER ->
            WithStatus(
                AbstractSnapshot(PyStr("Snapshot D"), PyStr("slugD"), source, 40,
                                 PyInt(4096), PyStr("0.101"), PyStr("partial"), FALSE,
                                 Dict({<<"folders", "ssl">>})),
                PyStr("Creating"))

\* Every kind for the two well-known sources, two kinds for the third, and a
\* bare local record.
Records ==
    {MakeRecord(s, k) : s \in {SOURCE_GOOGLE_DRIVE, SOURCE_HA}, k \in RecordKinds}
        \cup {MakeRecord(SOURCE_OTHER, k) : k \in {"plain", "pending"}}
        \cup {MakeRecord(SOURCE_HA, "bare")}

-----------------------------------------------------------------------------
\* A Python dict keeps insertion order: sources is the sequence of its values,
\* each under the key rec.source.

Keys(d) == {d[i].source : i \in 1..Len(d)}

\* A list in place of the dict: every assignment adds an entry.
DictSet_appends(d, rec) == Append(d, rec)

\* An assignment written as delete-then-insert: the key always goes last.
DictSet_movesToEnd(d, rec) ==
    Append(SelectSeq(d, LAMBDA old : old.source /= rec.source), rec)

\* d[rec.source] = rec: an existing key keeps its place, a new key goes last.
DictSet(d, rec) ==
    IF rec.source \in Keys(d)
    THEN [i \in 1..Len(d) |-> IF d[i].source = rec.source THEN rec ELSE d[i]]
    ELSE Append(d, rec)

\* A deletion that rebuilds the dict from the keys before the deleted one.
DictDel_truncates(d, key) ==
    SubSeq(d, 1, (CHOOSE i \in 1..Len(d) : d[i].source = key) - 1)

\* del d[key]
DictDel(d, key) == SelectSeq(d, LAMBDA rec : rec.source /= key)

\* d.get(key, None), with a flag for None
DictHas(d, key) == key \in Keys(d)

DictGet(d, key) == d[CHOOSE i \in 1..Len(d) : d[i].source = key]

\* _purgeNext maps source identifiers to bool; only its keys and values are read.
NoPurges == [k \in {} |-> FALSE]

\* The progress reporter handed to setUploadSource, by what its methods return.
NoReporter == [none |-> TRUE, progress |-> 0]

Reporter(p) == [none |-> FALSE, progress |-> p]

\* The status override: format and args, both None when no override is set.
NoFormat == [none |-> TRUE, tokens |-> <<>>]

NoArgs == [none |-> TRUE, items |-> <<>>]

-----------------------------------------------------------------------------
\* Snapshot: every method is an operator from the object (and the call's
\* arguments) to the object after the call, or to the value returned.

\* Snapshot.__init__ with snapshot = None; a seeding record goes through addSource.
SnapshotInit ==
    [sources |-> <<>>, purgeNext |-> NoPurges, options |-> PyNone,
     status_override |-> NoFormat, status_override_args |-> NoArgs,
     state_detail |-> PyNone, upload_source |-> NoReporter,
     upload_source_name |-> PyNone, upload_fail_info |-> PyNone]

setOptions(snap, options) == [snap EXCEPT !.options = options]

getOptions(snap) == snap.options

\* updatePurge() that takes a flag only for a source that has a record.
updatePurge_presentOnly(snap, source, purge) ==
    IF DictHas(snap.sources, source)
    THEN [snap EXCEPT !.purgeNext =
            [k \in (DOMAIN snap.purgeNext) \cup {source} |->
                IF k = source THEN purge ELSE snap.purgeNext[k]]]
    ELSE snap

updatePurge(snap, source, purge) ==
    [snap EXCEPT !.purgeNext =
        [k \in (DOMAIN snap.purgeNext) \cup {source} |->
            IF k = source THEN purge ELSE snap.purgeNext[k]]]

\* addSource() taking over the options of every record that carries some.
addSource_adoptsLatest(snap, snapshot) ==
    LET added == [snap EXCEPT !.sources = DictSet(snap.sources, snapshot)]
    IN  IF Truthy(snapshot.options) THEN setOptions(added, snapshot.options) ELSE added

addSource(snap, snapshot) ==
    LET added == [snap EXCEPT !.sources = DictSet(snap.sources, snapshot)]
    IN  IF Truthy(snapshot.options) /\ ~Truthy(getOptions(added))
        THEN setOptions(added, snapshot.options)
        ELSE added

getStatusDetail(snap) == snap.state_detail

setStatusDetail(snap, info) == [snap EXCEPT !.state_detail = info]

\* removeSource without its second half: the purge flag stays.
removeSource_keepsPurge(snap, source) ==
    IF DictHas(snap.sources, source)
    THEN [snap EXCEPT !.sources = DictDel(snap.sources, source)]
    ELSE snap

removeSource(snap, source) ==
    LET s1 == IF DictHas(snap.sources, source)
              THEN [snap EXCEPT !.sources = DictDel(snap.sources, source)]
              ELSE snap
    IN  IF source \in DOMAIN s1.purgeNext
        THEN [s1 EXCEPT !.purgeNext =
                [k \in (DOMAIN s1.purgeNext) \ {source} |-> s1.purgeNext[k]]]
        ELSE s1

getPurges(snap) == snap.purgeNext

\* getSource: the record, or None; HasSource is "getSource(source) is not None".
HasSource(snap, source) == DictHas(snap.sources, source)

getSource(snap, source) == DictGet(snap.sources, source)

\* The merged accessors. Each loop "for snapshot in self.sources.values()" visits
\* the records in insertion order.
name(snap) ==
    IF Len(snap.sources) > 0 THEN snap.sources[1].name ELSE PyStr("error")

slug(snap) ==
    IF Len(snap.sources) > 0 THEN snap.sources[1].slug ELSE PyStr("error")

size(snap) ==
    IF Len(snap.sources) > 0 THEN snap.sources[1].size ELSE PyInt(0)

sizeInt(snap) ==
    IF Len(snap.sources) > 0 THEN recSizeInt(snap.sources[1]) ELSE PyInt(0)

snapshotType(snap) ==
    IF Len(snap.sources) > 0 THEN snap.sources[1].snapshotType ELSE PyStr("error")

\* version() written like name(): the first record's value, None or not.
version_firstRecord(snap) ==
    IF Len(snap.sources) > 0 THEN snap.sources[1].version ELSE PyNone

version(snap) ==
    LET has == {i \in 1..Len(snap.sources) : snap.sources[i].version /= PyNone}
    IN  IF has /= {}
        THEN snap.sources[CHOOSE i \in has : \A j \in has : i <= j].version
        ELSE PyNone

details(snap) ==
    LET has == {i \in 1..Len(snap.sources) : ~snap.sources[i].details.none}
    IN  IF has /= {}
        THEN snap.sources[CHOOSE i \in has : \A j \in has : i <= j].details
        ELSE Dict({})

protected(snap) ==
    IF Len(snap.sources) > 0 THEN snap.sources[1].protected ELSE FALSE

\* date(): with no source it is datetime.now(), the clock's reading at the call.
date(snap, now) ==
    IF Len(snap.sources) > 0 THEN snap.sources[1].date ELSE now

\* str.format(*args): tokens are the template's literal pieces (idx = -1) and
\* its positional fields {idx}; a field past the arguments raises IndexError.
RECURSIVE FormatFrom(_, _, _)
FormatFrom(tokens, args, k) ==
    IF k > Len(tokens) THEN ""
    ELSE (IF tokens[k].idx < 0 THEN tokens[k].lit ELSE args[tokens[k].idx + 1])
         \o FormatFrom(tokens, args, k + 1)

Format(tokens, args) ==
    IF \E k \in 1..Len(tokens) : tokens[k].idx >= Len(args)
    THEN PyRaise("IndexError")
    ELSE PyStr(FormatFrom(tokens, args, 1))

\* The presence table with the two one-sided labels exchanged.
PresenceStatus_swapped(snap) ==
    LET inDrive == HasSource(snap, SOURCE_GOOGLE_DRIVE)
        inHa == HasSource(snap, SOURCE_HA)
    IN  IF inDrive /\ inHa THEN PyStr("Backed Up")
        ELSE IF inDrive THEN PyStr("HA Only")
        ELSE IF inHa THEN PyStr("Drive Only")
        ELSE PyStr("Deleted")

\* The presence table with every record that is not the remote one taken for
\* the local one.
PresenceStatus_localIsTheRest(snap) ==
    LET inDrive == HasSource(snap, SOURCE_GOOGLE_DRIVE)
        inHa == Keys(snap.sources) \ {SOURCE_GOOGLE_DRIVE} /= {}
    IN  IF inDrive /\ inHa THEN PyStr("Backed Up")
        ELSE IF inDrive THEN PyStr("Drive Only")
        ELSE IF inHa THEN PyStr("HA Only")
        ELSE PyStr("Deleted")

\* The tail of status(): the value computed from which sources are present.
PresenceStatus(snap) ==
    LET inDrive == HasSource(snap, SOURCE_GOOGLE_DRIVE)
        inHa == HasSource(snap, SOURCE_HA)
    IN  IF inDrive /\ inHa THEN PyStr("Backed Up")
        ELSE IF inDrive THEN PyStr("Drive Only")
        ELSE IF inHa THEN PyStr("HA Only")
        ELSE PyStr("Deleted")

\* The loop of status(): the records whose status() is truthy, in order.
SourceStatus(snap) ==
    LET has == {i \in 1..Len(snap.sources) : Truthy(snap.sources[i].status)}
    IN  IF has /= {}
        THEN snap.sources[CHOOSE i \in has : \A j \in has : i <= j].status
        ELSE PyNone

\* status() that shows the status detail while one is set.
status_showsDetail(snap) ==
    IF Truthy(snap.state_detail)
    THEN snap.state_detail
    ELSE IF ~snap.status_override.none
    THEN Format(snap.status_override.tokens, snap.status_override_args.items)
    ELSE IF SourceStatus(snap) /= PyNone
    THEN SourceStatus(snap)
    ELSE PresenceStatus(snap)

\* status() that asks the records before it looks at the override.
status_recordsFirst(snap) ==
    IF SourceStatus(snap) /= PyNone
    THEN SourceStatus(snap)
    ELSE IF ~snap.status_override.none
    THEN Format(snap.status_override.tokens, snap.status_override_args.items)
    ELSE PresenceStatus(snap)

status(snap) ==
    IF ~snap.status_override.none
    THEN Format(snap.status_override.tokens, snap.status_override_args.items)
    ELSE IF SourceStatus(snap) /= PyNone
    THEN SourceStatus(snap)
    ELSE PresenceStatus(snap)

\* isDeleted() that takes an override for a sign of life.
isDeleted_unlessOverridden(snap) ==
    Len(snap.sources) = 0 /\ snap.status_override.none

isDeleted(snap) == Len(snap.sources) = 0

overrideStatus(snap, format, args) ==
    [snap EXCEPT !.status_override = [none |-> FALSE, tokens |-> format],
                 !.status_override_args = [none |-> FALSE, items |-> args]]

\* clearStatus() that resets the arguments and leaves the format.
clearStatus_argsOnly(snap) == [snap EXCEPT !.status_override_args = NoArgs]

clearStatus(snap) ==
    [snap EXCEPT !.status_override = NoFormat, !.status_override_args = NoArgs]

\* setUploadSource() that leaves the failure of the upload before in place.
setUploadSource_keepsFailure(snap, source_name, source) ==
    [snap EXCEPT !.upload_source = source, !.upload_source_name = source_name]

setUploadSource(snap, source_name, source) ==
    [snap EXCEPT !.upload_source = source,
                 !.upload_source_name = source_name,
                 !.upload_fail_info = PyNone]

\* clearUploadSource() that keeps the name last set.
clearUploadSource_keepsName(snap) ==
    [snap EXCEPT !.upload_source = NoReporter, !.upload_fail_info = PyNone]

clearUploadSource(snap) ==
    [snap EXCEPT !.upload_source = NoReporter,
                 !.upload_source_name = PyNone,
                 !.upload_fail_info = PyNone]

\* uploadFailure() that stores the info and leaves the reporter in place.
uploadFailure_keepsReporter(snap, info) == [snap EXCEPT !.upload_fail_info = info]

\* uploadFailure() that resets the name as clearUploadSource() does.
uploadFailure_clearsName(snap, info) ==
    [snap EXCEPT !.upload_source = NoReporter,
                 !.upload_source_name = PyNone,
                 !.upload_fail_info = info]

uploadFailure(snap, info) ==
    [snap EXCEPT !.upload_source = NoReporter, !.upload_fail_info = info]

\* uploadInfo() reads the reporter's progress twice: once in the test against
\* 100 and once more for the value it returns.
\* The test written on the progress value's truth: 0 counts as nothing to report.
uploadInfoEmpty_falsyProgress(snap) ==
    IF snap.upload_source.none THEN TRUE
    ELSE snap.upload_source.progress = 0 \/ snap.upload_source.progress = 100

uploadInfoEmpty(snap) ==
    IF snap.upload_source.none THEN TRUE
    ELSE snap.upload_source.progress = 100

uploadInfoProgress(snap) == Dict({<<"progress", PyInt(snap.upload_source.progress)>>})

\* getUploadInfo(time): speed, position and startTime are the reporter's own
\* figures, formatDelta the clock collaborator's rendering of the start time.
ReporterSpeed(rep) == PyInt(rep.progress * 2)

ReporterPosition(rep) == PyInt(rep.progress * 1024)

FormatDelta(time, rep) == [t |-> "delta", i |-> time, s |-> ""]

getUploadInfo(snap, time) ==
    IF snap.upload_source_name = PyNone THEN NoDict
    ELSE LET ret == {<<"name", snap.upload_source_name>>}
         IN  IF Truthy(snap.upload_fail_info)
             THEN Dict(ret \cup {<<"failure", snap.upload_fail_info>>})
             ELSE IF ~snap.upload_source.none
             THEN Dict(ret \cup {<<"progress", PyInt(snap.upload_source.progress)>>,
                                 <<"speed", ReporterSpeed(snap.upload_source)>>,
                                 <<"total", ReporterPosition(snap.upload_source)>>,
                                 <<"started", FormatDelta(time, snap.upload_source)>>})
             ELSE Dict(ret)

-----------------------------------------------------------------------------
\* The arguments the callers pass.

\* overrideStatus("Deleting from {0}", "Drive") and overrideStatus("").
Overrides ==
    { [format |-> <<[lit |-> "Deleting from ", idx |-> -1], [lit |-> "", idx |-> 0]>>,
       args |-> <<"Drive">>],
      [format |-> <<>>, args |-> <<>>] }

\* updatePurge(source, purge)
PurgeCalls ==
    { [source |-> SOURCE_GOOGLE_DRIVE, purge |-> TRUE],
      [source |-> SOURCE_GOOGLE_DRIVE, purge |-> FALSE],
      [source |-> SOURCE_HA, purge |-> TRUE] }

StatusDetails == {PyNone, PyStr("waiting")}

OptionValues == {PyNone, PyStr("optionsC")}

\* setUploadSource(source_name: str, source): a name and a reporter object.
UploadNames == {PyStr(SOURCE_GOOGLE_DRIVE), PyStr(SOURCE_HA)}

ProgressValues == {0, 50, 99, 100}

\* uploadFailure(info): the diagnostic payload, which may be None or empty.
FailureInfos == {PyNone, PyStr(""), PyStr("timeout"), PyStr("quota exceeded")}

\* How many times the clock is seen to move on.
MaxClockTicks == 1

\* The clock's readings, later than every record's date.
Times == 100..(100 + MaxClockTicks)

\* The records and identifiers used while the upload tracking is exercised.
FewRecords == {MakeRecord(SOURCE_HA, "plain"), MakeRecord(SOURCE_GOOGLE_DRIVE, "pending")}

\* What a record may hold as its size: nothing, an int, or a text.
SizeValues ==
    {PyNone, PyInt(0), PyInt(1024)} \cup {PyStr(Text(cs)) : cs \in SizeTexts}

\* Local and remote records of every size.
SizeRecords ==
    {[MakeRecord(source, "plain") EXCEPT !.size = v] :
        source \in {SOURCE_HA, SOURCE_GOOGLE_DRIVE}, v \in SizeValues}

FewSourceIds == {SOURCE_HA, SOURCE_GOOGLE_DRIVE}

-----------------------------------------------------------------------------
\* The history variables.

NoCall == [pc |-> "idle", valid |-> FALSE, ret |-> NoDict]

OvNever == [phase |-> "never", expect |-> PyNone, touched |-> FALSE]

UpIdle == [set |-> FALSE, name |-> PyNone, failed |-> FALSE, info |-> PyNone,
           over |-> FALSE]

\* No record added for any source, no record with options seen.
NoRecord == [none |-> TRUE]

SrcNever == [added |-> [id \in SourceIds |-> NoRecord], firstOptions |-> PyNone]

Init ==
    /\ self = SnapshotInit
    /\ ui = NoCall
    /\ lastOp = "init"
    /\ ovHist = OvNever
    /\ upHist = UpIdle
    /\ srcHist = SrcNever

\* A call of a mutator: the caller is single-threaded, so no call starts while
\* uploadInfo() is between its two reads; the value uploadInfo() returned last
\* is dropped.
Call(op) ==
    /\ ui.pc = "idle"
    /\ ui' = NoCall
    /\ lastOp' = op

\* ovHist.touched: the sources were written while an override was in place.
SourcesTouched ==
    IF ovHist.phase = "set" THEN [ovHist EXCEPT !.touched = TRUE] ELSE ovHist

AddSource(snapshot) ==
    /\ Call("addSource")
    /\ self' = addSource(self, snapshot)
    /\ ovHist' = SourcesTouched
    /\ srcHist' = [added |-> [srcHist.added EXCEPT ![snapshot.source] = snapshot],
                   firstOptions |->
                        IF srcHist.firstOptions = PyNone
                        THEN snapshot.options
                        ELSE srcHist.firstOptions]
    /\ UNCHANGED upHist

RemoveSource(source) ==
    /\ Call("removeSource")
    /\ self' = removeSource(self, source)
    /\ ovHist' = SourcesTouched
    /\ srcHist' = [srcHist EXCEPT !.added[source] = NoRecord]
    /\ UNCHANGED upHist

UpdatePurge(source, purge) ==
    /\ Call("updatePurge")
    /\ self' = updatePurge(self, source, purge)
    /\ UNCHANGED <<ovHist, upHist, srcHist>>

SetOptions(options) ==
    /\ Call("setOptions")
    /\ self' = setOptions(self, options)
    /\ UNCHANGED <<ovHist, upHist, srcHist>>

SetStatusDetail(info) ==
    /\ Call("setStatusDetail")
    /\ self' = setStatusDetail(self, info)
    /\ UNCHANGED <<ovHist, upHist, srcHist>>

OverrideStatus(o) ==
    /\ Call("overrideStatus")
    /\ self' = overrideStatus(self, o.format, o.args)
    /\ ovHist' = [phase |-> "set", expect |-> Format(o.format, o.args), touched |-> FALSE]
    /\ UNCHANGED <<upHist, srcHist>>

ClearStatus ==
    /\ Call("clearStatus")
    /\ self' = clearStatus(self)
    /\ ovHist' = [ovHist EXCEPT !.phase = "cleared", !.expect = PyNone]
    /\ UNCHANGED <<upHist, srcHist>>

SetUploadSource(source_name, source) ==
    /\ Call("setUploadSource")
    /\ self' = setUploadSource(self, source_name, source)
    /\ upHist' = [set |-> TRUE, name |-> source_name, failed |-> FALSE, info |-> PyNone,
                  over |-> self.upload_fail_info /= PyNone]
    /\ UNCHANGED <<ovHist, srcHist>>

ClearUploadSource ==
    /\ Call("clearUploadSource")
    /\ self' = clearUploadSource(self)
    /\ upHist' = UpIdle
    /\ UNCHANGED <<ovHist, srcHist>>

UploadFailure(info) ==
    /\ Call("uploadFailure")
    /\ self' = uploadFailure(self, info)
    /\ upHist' = [upHist EXCEPT !.failed = TRUE, !.info = info]
    /\ UNCHANGED <<ovHist, srcHist>>

\* The transfer moves on: the reporter's progress grows. The reporter is the
\* object self.upload_source refers to.
ReporterAdvance(p) ==
    /\ ui.pc = "idle"
    /\ ~self.upload_source.none
    /\ p > self.upload_source.progress
    /\ self' = [self EXCEPT !.upload_source.progress = p]
    /\ ui' = NoCall
    /\ lastOp' = "progress"
    /\ UNCHANGED <<ovHist, upHist, srcHist>>

\* The transfer moves on in its own thread while uploadInfo() stands between
\* its two reads of progress().
ReporterAdvanceDuringCall(p) ==
    /\ ui.pc = "read"
    /\ ~self.upload_source.none
    /\ p > self.upload_source.progress
    /\ self' = [self EXCEPT !.upload_source.progress = p]
    /\ UNCHANGED <<ui, lastOp, ovHist, upHist, srcHist>>

\* uploadInfo(), up to its first read of progress(): lines 146 to 149.
UploadInfoCall ==
    /\ ui.pc = "idle"
    /\ ui' = IF uploadInfoEmpty(self)
             THEN [pc |-> "idle", valid |-> TRUE, ret |-> Dict({})]
             ELSE [pc |-> "read", valid |-> FALSE, ret |-> NoDict]
    /\ lastOp' = "uploadInfo"
    /\ UNCHANGED <<self, ovHist, upHist, srcHist>>

\* uploadInfo(), its second read of progress() and the return: lines 151 to 153.
UploadInfoReturn ==
    /\ ui.pc = "read"
    /\ ui' = [pc |-> "idle", valid |-> TRUE, ret |-> uploadInfoProgress(self)]
    /\ UNCHANGED <<self, lastOp, ovHist, upHist, srcHist>>

\* The aggregation and the status: every record, every source identifier.
Next ==
    \/ \E snapshot \in Records : AddSource(snapshot)
    \/ \E source \in SourceIds : RemoveSource(source)
    \/ \E c \in PurgeCalls : UpdatePurge(c.source, c.purge)
    \/ \E o \in Overrides : OverrideStatus(o)
    \/ ClearStatus

Spec == Init /\ [][Next]_vars

\* The aggregation over records of every size.
NextSize ==
    \/ \E snapshot \in SizeRecords : AddSource(snapshot)
    \/ \E source \in {SOURCE_HA, SOURCE_GOOGLE_DRIVE} : RemoveSource(source)

SpecSize == Init /\ [][NextSize]_vars

\* The upload tracking with a reporter that another thread advances.
NextAsync ==
    \/ \E source_name \in UploadNames, p \in ProgressValues :
          SetUploadSource(source_name, Reporter(p))
    \/ ClearUploadSource
    \/ \E info \in FailureInfos : UploadFailure(info)
    \/ \E p \in ProgressValues : ReporterAdvance(p)
    \/ \E p \in ProgressValues : ReporterAdvanceDuringCall(p)
    \/ UploadInfoCall
    \/ UploadInfoReturn
    \/ \E snapshot \in FewRecords : AddSource(snapshot)
    \/ \E source \in FewSourceIds : RemoveSource(source)

SpecAsync == Init /\ [][NextAsync]_vars

\* The upload tracking, next to a small aggregation.
NextUpload ==
    \/ \E source_name \in UploadNames, p \in ProgressValues :
          SetUploadSource(source_name, Reporter(p))
    \/ ClearUploadSource
    \/ \E info \in FailureInfos : UploadFailure(info)
    \/ \E p \in ProgressValues : ReporterAdvance(p)
    \/ UploadInfoCall
    \/ UploadInfoReturn
    \/ \E snapshot \in FewRecords : AddSource(snapshot)
    \/ \E source \in FewSourceIds : RemoveSource(source)
    \/ \E source \in FewSourceIds : UpdatePurge(source, TRUE)
    \/ \E options \in OptionValues : SetOptions(options)
    \/ \E info \in StatusDetails : SetStatusDetail(info)
    \/ \E o \in Overrides : OverrideStatus(o)

SpecUpload == Init /\ [][NextUpload]_vars

-----------------------------------------------------------------------------
\* What the claims speak of.

\* The first index of d at which P holds, 0 when there is none.
FirstIndex(d, P(_)) ==
    IF \E i \in 1..Len(d) : P(d[i])
    THEN CHOOSE i \in 1..Len(d) : P(d[i]) /\ \A j \in 1..(i - 1) : ~P(d[j])
    ELSE 0

OverrideSet == ovHist.phase = "set"

\* The status a record reports counts when it is not None (the claim's reading)
\* or when it is truthy (neither None nor empty).
ReportsNonNull(rec) == rec.status /= PyNone

ReportsTruthy(rec) == Truthy(rec.status)

\* The presence table, written from the identifiers present.
PresenceTable(ids) ==
    IF SOURCE_GOOGLE_DRIVE \in ids /\ SOURCE_HA \in ids THEN PyStr("Backed Up")
    ELSE IF SOURCE_GOOGLE_DRIVE \in ids THEN PyStr("Drive Only")
    ELSE IF SOURCE_HA \in ids THEN PyStr("HA Only")
    ELSE PyStr("Deleted")

\* C1 as stated: status() is the rendered override when one is set; otherwise
\* the first non-null status a record reports, in insertion order; otherwise the
\* presence-derived value.
C1_StatusPrecedenceNonNull ==
    LET first == FirstIndex(self.sources, ReportsNonNull)
    IN  IF OverrideSet THEN status(self) = ovHist.expect
        ELSE IF first > 0 THEN status(self) = self.sources[first].status
        ELSE status(self) = PresenceTable(Keys(self.sources))

\* C1 amended: status() is the rendered override when one is set; otherwise the
\* first status a record reports that is neither null nor empty, in insertion
\* order; otherwise the presence-derived value.
C1_StatusPrecedence ==
    LET first == FirstIndex(self.sources, ReportsTruthy)
    IN  IF OverrideSet THEN status(self) = ovHist.expect
        ELSE IF first > 0 THEN status(self) = self.sources[first].status
        ELSE status(self) = PresenceTable(Keys(self.sources))

\* C1 witness: an override is in place over two records that report different
\* statuses of their own.
C1_Witness ==
    /\ OverrideSet
    /\ Len(self.sources) >= 2
    /\ ReportsTruthy(self.sources[1]) /\ ReportsTruthy(self.sources[2])
    /\ self.sources[1].status /= self.sources[2].status
    /\ status(self) = PyStr("Deleting from Drive")

\* C2: with no override and no record reporting a status, status() is "Backed Up"
\* with both the remote and the local record, "Drive Only" with the remote one
\* alone, "HA Only" with the local one alone, "Deleted" with neither.
C2_PresenceStatus ==
    (ovHist.phase /= "set" /\ \A i \in 1..Len(self.sources) : ~ReportsNonNull(self.sources[i]))
        => /\ (HasSource(self, SOURCE_GOOGLE_DRIVE) /\ HasSource(self, SOURCE_HA))
                => status(self) = PyStr("Backed Up")
           /\ (HasSource(self, SOURCE_GOOGLE_DRIVE) /\ ~HasSource(self, SOURCE_HA))
                => status(self) = PyStr("Drive Only")
           /\ (~HasSource(self, SOURCE_GOOGLE_DRIVE) /\ HasSource(self, SOURCE_HA))
                => status(self) = PyStr("HA Only")
           /\ (~HasSource(self, SOURCE_GOOGLE_DRIVE) /\ ~HasSource(self, SOURCE_HA))
                => status(self) = PyStr("Deleted")

\* C2 witness: a removal has left the remote record alone, with no override and
\* no status of its own.
C2_Witness ==
    /\ lastOp = "removeSource"
    /\ ovHist.phase /= "set"
    /\ Keys(self.sources) = {SOURCE_GOOGLE_DRIVE}
    /\ ~ReportsNonNull(self.sources[1])
    /\ status(self) = PyStr("Drive Only")

\* C3: a snapshot with zero sources is deleted whatever the override, has size 0
\* and name "error", and without an override has status "Deleted".
C3_EmptySnapshot ==
    self.sources = <<>>
        => /\ isDeleted(self)
           /\ size(self) = PyInt(0)
           /\ name(self) = PyStr("error")
           /\ (ovHist.phase /= "set" => status(self) = PyStr("Deleted"))

\* C3 witness: the last source has been removed while an override is in place.
C3_Witness ==
    /\ lastOp = "removeSource"
    /\ self.sources = <<>>
    /\ OverrideSet
    /\ ovHist.touched
    /\ isDeleted(self)

\* The snapshot with the same sources on which no override was ever set.
NeverOverridden(snap) == [SnapshotInit EXCEPT !.sources = snap.sources]

\* C4: after overrideStatus, status() is the template rendered with the call's
\* arguments whatever the sources; after a following clearStatus, it is the
\* status of a never-overridden snapshot with the current sources.
C4_OverrideThenClear ==
    /\ ovHist.phase = "set" => status(self) = ovHist.expect
    /\ ovHist.phase = "cleared" => status(self) = status(NeverOverridden(self))

\* C4 witness: the override was cleared after the sources changed under it.
C4_Witness ==
    /\ lastOp = "clearStatus"
    /\ ovHist.phase = "cleared"
    /\ ovHist.touched
    /\ self.sources /= <<>>
    /\ status(self) = PyStr("HA Only")

\* The merged view as the claims list it; now is the clock's reading at the call.
MergedView(snap, now) ==
    [name |-> name(snap), slug |-> slug(snap), size |-> size(snap),
     date |-> date(snap, now), version |-> version(snap),
     snapshotType |-> snapshotType(snap), protected |-> protected(snap),
     details |-> details(snap), status |-> status(snap), isDeleted |-> isDeleted(snap)]

\* The merged view without date().
TimelessView(snap) == [f \in (DOMAIN MergedView(snap, 0)) \ {"date"} |-> MergedView(snap, 0)[f]]

\* addSource(r) followed by removeSource(r.source())
RoundTrip(snap, r) == removeSource(addSource(snap, r), r.source)

\* C5 as stated: from every reachable state and for every record r, addSource(r)
\* then removeSource(r.source()) gives back every merged-view output read before
\* the add, and leaves no purge flag for that source.
C5_RoundTripAnyRecord ==
    \A r \in Records : \A before \in Times : \A after \in Times :
        before <= after
            => /\ MergedView(RoundTrip(self, r), after) = MergedView(self, before)
               /\ r.source \notin DOMAIN getPurges(RoundTrip(self, r))

\* C5 amended: for every record r whose source has no record in the snapshot,
\* addSource(r) then removeSource(r.source()) gives back name, slug, size,
\* version, snapshotType, protected, details, status and isDeleted, and date too
\* when the snapshot holds a source (with none, date() is the time of the call);
\* for every r, no purge flag for that source is left.
C5_RoundTripNewSource ==
    \A r \in Records :
        /\ r.source \notin DOMAIN getPurges(RoundTrip(self, r))
        /\ ~HasSource(self, r.source)
            => /\ TimelessView(RoundTrip(self, r)) = TimelessView(self)
               /\ self.sources /= <<>>
                    => \A before \in Times : \A after \in Times :
                         date(RoundTrip(self, r), after) = date(self, before)

\* C5 witness: the snapshot holds a local record and no remote one, a purge flag
\* is set for the remote source, and a remote record has just been added and
\* removed again.
C5_Witness ==
    /\ lastOp = "removeSource"
    /\ Keys(self.sources) = {SOURCE_HA}
    /\ DOMAIN getPurges(self) = {SOURCE_HA}
    /\ \E r \in Records :
        /\ r.source = SOURCE_GOOGLE_DRIVE
        /\ RoundTrip(updatePurge(self, SOURCE_GOOGLE_DRIVE, TRUE), r) = self

\* The entries of a mapping for the keys other than source.
OtherRecords(d, source) == SelectSeq(d, LAMBDA rec : rec.source /= source)

OtherPurges(purges, source) == [k \in (DOMAIN purges) \ {source} |-> purges[k]]

\* C6: a removeSource(source) step leaves no entry for source in the sources and
\* in the purge flags, keeps every other entry of both (and the order of the
\* sources), and keeps the options, the override, the status detail and the
\* upload-tracking fields; with source in neither mapping it changes nothing.
C6_RemoveSourceFrame ==
    [][\A source \in SourceIds :
        RemoveSource(source)
            => /\ ~HasSource(self', source)
               /\ source \notin DOMAIN getPurges(self')
               /\ self'.sources = OtherRecords(self.sources, source)
               /\ self'.purgeNext = OtherPurges(self.purgeNext, source)
               /\ self'.options = self.options
               /\ self'.status_override = self.status_override
               /\ self'.status_override_args = self.status_override_args
               /\ self'.state_detail = self.state_detail
               /\ self'.upload_source = self.upload_source
               /\ self'.upload_source_name = self.upload_source_name
               /\ self'.upload_fail_info = self.upload_fail_info
               /\ (~HasSource(self, source) /\ source \notin DOMAIN getPurges(self))
                    => self' = self]_vars

\* C6 witness: a removal has acted on a snapshot that keeps another source, a
\* purge flag for it, options, an override, a status detail and a failed upload.
C6_Witness ==
    /\ lastOp = "removeSource"
    /\ Keys(self.sources) = {SOURCE_HA}
    /\ DOMAIN getPurges(self) = {SOURCE_HA}
    /\ self.options /= PyNone
    /\ ~self.status_override.none
    /\ self.state_detail /= PyNone
    /\ self.upload_source_name /= PyNone
    /\ self.upload_fail_info /= PyNone

\* C5 as stated, for the outputs that do not read the clock: it fails as well,
\* where r replaces a record the snapshot already holds for r.source().
C5_RoundTripAnyRecordTimeless ==
    \A r \in Records : TimelessView(RoundTrip(self, r)) = TimelessView(self)

\* C7: uploadInfo() returns {} with no reporter set and with a reporter whose
\* progress is exactly 100, and {progress: p} for a reporter at 0 <= p < 100.
C7_UploadInfo ==
    ui.valid
        => /\ self.upload_source.none => ui.ret = Dict({})
           /\ (~self.upload_source.none /\ self.upload_source.progress = 100)
                => ui.ret = Dict({})
           /\ (~self.upload_source.none /\ self.upload_source.progress \in 0..99)
                => ui.ret = Dict({<<"progress", PyInt(self.upload_source.progress)>>})

\* C7 witness: uploadInfo() has returned for a reporter that has not started.
C7_Witness ==
    /\ ui.valid
    /\ upHist.set
    /\ ~self.upload_source.none
    /\ self.upload_source.progress = 0
    /\ ui.ret = Dict({<<"progress", PyInt(0)>>})

\* A failure was recorded since the last setUploadSource, and no clear followed.
FailedUpload == upHist.set /\ upHist.failed

\* C8 as stated: after setUploadSource(s, reporter) and uploadFailure(info), for
\* every info, getUploadInfo returns exactly {name: s, failure: info}, until the
\* next setUploadSource or clearUploadSource.
C8_FailureReportedAnyInfo ==
    FailedUpload
        => \A time \in Times :
             getUploadInfo(self, time) =
                Dict({<<"name", upHist.name>>, <<"failure", upHist.info>>})

\* C8 amended: after setUploadSource(s, reporter) and uploadFailure(info) with an
\* info that is neither null nor empty, getUploadInfo returns exactly
\* {name: s, failure: info}, until the next setUploadSource, clearUploadSource
\* or uploadFailure (whose info then takes the place of this one).
C8_FailureReported ==
    (FailedUpload /\ Truthy(upHist.info))
        => \A time \in Times :
             getUploadInfo(self, time) =
                Dict({<<"name", upHist.name>>, <<"failure", upHist.info>>})

\* C8 witness: a failed upload is still reported after a later call.
C8_Witness ==
    /\ FailedUpload
    /\ upHist.name = PyStr(SOURCE_GOOGLE_DRIVE)
    /\ upHist.info = PyStr("timeout")
    /\ lastOp = "addSource"
    /\ getUploadInfo(self, 100) =
          Dict({<<"name", PyStr(SOURCE_GOOGLE_DRIVE)>>, <<"failure", PyStr("timeout")>>})

\* C9: getUploadInfo returns null exactly when no setUploadSource was called
\* since construction or since the most recent clearUploadSource.
C9_NullIffNoUpload ==
    \A time \in Times : (getUploadInfo(self, time) = NoDict) <=> ~upHist.set

\* C9 witness: uploadFailure was called with no setUploadSource before it, and
\* getUploadInfo is still null.
C9_Witness ==
    /\ ~upHist.set
    /\ upHist.failed
    /\ Truthy(upHist.info)
    /\ getUploadInfo(self, 100) = NoDict

\* A record supplies a version (details) when the value is not None, or, in the
\* claim's reading, when it is neither None nor empty.
SuppliesVersion(rec) == rec.version /= PyNone

SuppliesDetails(rec) == ~rec.details.none

SuppliesNonEmptyVersion(rec) == Truthy(rec.version)

SuppliesNonEmptyDetails(rec) == ~rec.details.none /\ rec.details.items /= {}

\* C10 as stated: version() and details() skip the records that report a null
\* or empty value, return the value of the first record that supplies one, and
\* return None and {} when no record does.
C10_SkipNullOrEmpty ==
    LET v == FirstIndex(self.sources, SuppliesNonEmptyVersion)
        d == FirstIndex(self.sources, SuppliesNonEmptyDetails)
    IN  /\ version(self) = IF v > 0 THEN self.sources[v].version ELSE PyNone
        /\ details(self) = IF d > 0 THEN self.sources[d].details ELSE Dict({})

\* C10 amended: version() and details() skip the records that report null,
\* return the value of the first record that reports a non-null one (an empty
\* one included), and return None and {} when every record reports null.
C10_SkipNull ==
    LET v == FirstIndex(self.sources, SuppliesVersion)
        d == FirstIndex(self.sources, SuppliesDetails)
    IN  /\ version(self) = IF v > 0 THEN self.sources[v].version ELSE PyNone
        /\ details(self) = IF d > 0 THEN self.sources[d].details ELSE Dict({})

\* C10 witness: the first-inserted record has no version and no details, the
\* second has both, and the merged view shows the second's.
C10_Witness ==
    /\ Len(self.sources) >= 2
    /\ ~SuppliesVersion(self.sources[1]) /\ ~SuppliesDetails(self.sources[1])
    /\ version(self) = PyStr("0.100")
    /\ details(self) = Dict({<<"addons", "mqtt">>})

\* The source identifiers of a mapping, in insertion order.
KeyOrder(d) == [i \in 1..Len(d) |-> d[i].source]

\* Re-adding a record for a source already present leaves the order alone.
ReAddKeepsOrder ==
    \A r \in Records :
        HasSource(self, r.source)
            => KeyOrder(addSource(self, r).sources) = KeyOrder(self.sources)

\* The fallbacks of the merged accessors, with no source present.
MergedFallbacks ==
    self.sources = <<>>
        => /\ name(self) = PyStr("error") /\ slug(self) = PyStr("error")
           /\ size(self) = PyInt(0) /\ snapshotType(self) = PyStr("error")
           /\ protected(self) = FALSE
           /\ \A now \in Times : date(self, now) = now

HasName(rec) == rec.name /= PyNone

HasSlug(rec) == rec.slug /= PyNone

HasSize(rec) == rec.size /= PyNone

HasType(rec) == rec.snapshotType /= PyNone

\* C11 as stated: name(), slug(), size(), date(), snapshotType() and protected()
\* return the first non-null value in insertion order, re-adding a source does
\* not move it, and the fallbacks apply with no source present.
C11_FirstNonNullWins ==
    LET n == FirstIndex(self.sources, HasName)
        g == FirstIndex(self.sources, HasSlug)
        z == FirstIndex(self.sources, HasSize)
        k == FirstIndex(self.sources, HasType)
    IN  /\ n > 0 => name(self) = self.sources[n].name
        /\ g > 0 => slug(self) = self.sources[g].slug
        /\ z > 0 => size(self) = self.sources[z].size
        /\ k > 0 => snapshotType(self) = self.sources[k].snapshotType
        /\ self.sources /= <<>>
            => /\ protected(self) = self.sources[1].protected
               /\ \A now \in Times : date(self, now) = self.sources[1].date
        /\ ReAddKeepsOrder
        /\ MergedFallbacks

\* C11 amended: name(), slug(), size(), date(), snapshotType() and protected()
\* return the value of the first record in insertion order, null or not;
\* re-adding a source does not move it; the fallbacks apply with no source.
C11_FirstRecordWins ==
    /\ self.sources /= <<>>
        => /\ name(self) = self.sources[1].name
           /\ slug(self) = self.sources[1].slug
           /\ size(self) = self.sources[1].size
           /\ snapshotType(self) = self.sources[1].snapshotType
           /\ protected(self) = self.sources[1].protected
           /\ \A now \in Times : date(self, now) = self.sources[1].date
    /\ ReAddKeepsOrder
    /\ MergedFallbacks

\* C11 witness: the first-added record was re-added after a second source came
\* in, and still comes first; it holds no name while the second one does.
C11_Witness ==
    /\ lastOp = "addSource"
    /\ KeyOrder(self.sources) = <<SOURCE_HA, SOURCE_GOOGLE_DRIVE>>
    /\ self.sources[1] = MakeRecord(SOURCE_HA, "bare")
    /\ HasName(self.sources[2])
    /\ name(self) = PyNone
    /\ srcHist.added[SOURCE_HA] = self.sources[1]

\* What sizeInt() is to return for a size: the int it can be coerced to, 0 when
\* the coercion fails.
Coerced(v) == IF int(v).t = "int" THEN int(v) ELSE PyInt(0)

\* C12 as stated: AbstractSnapshot.sizeInt() raises for no size (int, numeric
\* text, other text, None) and returns the coerced int or else 0; the merged
\* sizeInt() raises never and returns 0 with no source.
C12_SizeIntNeverRaises ==
    /\ \A k \in 1..Len(self.sources) :
          /\ recSizeInt(self.sources[k]).t /= "raise"
          /\ recSizeInt(self.sources[k]) = Coerced(self.sources[k].size)
    /\ sizeInt(self).t /= "raise"
    /\ self.sources = <<>> => sizeInt(self) = PyInt(0)

\* Short of a size of None, sizeInt() does as C12 says, on a record and merged.
C12_SizeIntOfIntOrText ==
    /\ \A k \in 1..Len(self.sources) :
          self.sources[k].size /= PyNone
              => recSizeInt(self.sources[k]) = Coerced(self.sources[k].size)
    /\ (self.sources /= <<>> /\ self.sources[1].size /= PyNone)
          => sizeInt(self) = Coerced(self.sources[1].size)
    /\ self.sources = <<>> => sizeInt(self) = PyInt(0)

\* A record of size " 12 " leads, one of size "2 MB" follows.
C12_Witness ==
    /\ Len(self.sources) = 2
    /\ self.sources[1].size = PyStr(" 12 ") /\ sizeInt(self) = PyInt(12)
    /\ self.sources[2].size = PyStr("2 MB") /\ recSizeInt(self.sources[2]) = PyInt(0)

\* C13: the snapshot holds at most one record per source identifier;
\* getSource(id) is the record added last under id, or None when id was removed
\* or never added; adding a record twice leaves the state adding it once does.
C13_OneRecordPerSource ==
    /\ \A id \in SourceIds :
          /\ Cardinality({k \in 1..Len(self.sources) : self.sources[k].source = id}) <= 1
          /\ IF srcHist.added[id] = NoRecord
             THEN ~HasSource(self, id)
             ELSE HasSource(self, id) /\ getSource(self, id) = srcHist.added[id]
    /\ \A r \in Records : addSource(addSource(self, r), r) = addSource(self, r)

\* C13 witness: a record was replaced. Neither record present carries options,
\* so the options the snapshot holds came with a record that is no longer there.
C13_Witness ==
    /\ lastOp = "addSource"
    /\ self.sources = <<MakeRecord(SOURCE_HA, "bare"),
                        MakeRecord(SOURCE_GOOGLE_DRIVE, "plain")>>
    /\ getSource(self, SOURCE_HA) = MakeRecord(SOURCE_HA, "bare")
    /\ self.options = PyStr("optionsA")
    /\ ~HasSource(self, SOURCE_OTHER)

\* C14: from any upload-tracking state, setUploadSource(s, r) leaves the upload
\* source id s, the reporter r and no failure info; the getUploadInfo that
\* follows names s, has no failure key and reports the progress of r.
C14_SetUploadSourceResets ==
    [][\A s \in UploadNames, p \in ProgressValues :
          (lastOp' = "setUploadSource" /\ SetUploadSource(s, Reporter(p)))
              => /\ self'.upload_source_name = s
                 /\ self'.upload_source = Reporter(p)
                 /\ self'.upload_fail_info = PyNone
                 /\ \A time \in Times :
                       LET info == getUploadInfo(self', time).items
                       IN  /\ <<"name", s>> \in info
                           /\ <<"progress", PyInt(p)>> \in info
                           /\ \A item \in info :
                                 /\ item[1] /= "failure"
                                 /\ item[1] = "name" => item[2] = s
                                 /\ item[1] = "progress" => item[2] = PyInt(p)]_vars

\* C14 witness: setUploadSource has just replaced a failed upload of the other
\* source, and the upload info shows the new one only.
C14_Witness ==
    /\ lastOp = "setUploadSource"
    /\ upHist.over
    /\ self.upload_fail_info = PyNone
    /\ getUploadInfo(self, 100) =
          Dict({<<"name", PyStr(SOURCE_HA)>>, <<"progress", PyInt(50)>>,
                <<"speed", ReporterSpeed(Reporter(50))>>,
                <<"total", ReporterPosition(Reporter(50))>>,
                <<"started", FormatDelta(100, Reporter(50))>>})

\* C15: however setUploadSource (with an id that is not None), clearUploadSource
\* and uploadFailure interleave, the reporter and the failure info are never
\* both set, and a set reporter implies a set upload source id.
C15_ReporterExcludesFailure ==
    /\ ~(~self.upload_source.none /\ self.upload_fail_info /= PyNone)
    /\ ~self.upload_source.none => self.upload_source_name /= PyNone

\* C15 witness: the upload that took the place of a failed one has failed too;
\* the failure info is set, the reporter gone, the id still there.
C15_Witness ==
    /\ lastOp = "uploadFailure"
    /\ upHist.set /\ upHist.over
    /\ self.upload_fail_info = PyStr("quota exceeded")
    /\ self.upload_source.none
    /\ self.upload_source_name = PyStr(SOURCE_GOOGLE_DRIVE)

\* The operations on status, upload and purge state leave the options alone.
OptionsFrame(snap) ==
    /\ \A o \in Overrides :
          overrideStatus(snap, o.format, o.args).options = snap.options
    /\ clearStatus(snap).options = snap.options
    /\ \A info \in StatusDetails : setStatusDetail(snap, info).options = snap.options
    /\ \A c \in PurgeCalls : updatePurge(snap, c.source, c.purge).options = snap.options
    /\ \A source \in SourceIds : removeSource(snap, source).options = snap.options
    /\ \A s \in UploadNames, p \in ProgressValues :
          setUploadSource(snap, s, Reporter(p)).options = snap.options
    /\ clearUploadSource(snap).options = snap.options
    /\ \A info \in FailureInfos : uploadFailure(snap, info).options = snap.options

\* C16: addSource sets the options once, from the first record added that
\* carries some, and no addSource, removeSource, status, upload or purge
\* operation changes them afterwards; after any sequence of addSource and
\* removeSource on a snapshot built without options they are those of the
\* first record added that carried options.
C16_OptionsSetOnce ==
    /\ [](OptionsFrame(self) /\ self.options = srcHist.firstOptions)
    /\ [][/\ self.options /= PyNone => self'.options = self.options
          /\ self'.options /= self.options
                => /\ lastOp' = "addSource"
                   /\ \E r \in Records :
                         /\ self' = addSource(self, r)
                         /\ r.options = self'.options]_vars

\* C16 witness: the record the options came with was removed, a record with
\* options of its own is all that is left, and the options are the first ones.
C16_Witness ==
    /\ lastOp = "removeSource"
    /\ self.sources = <<MakeRecord(SOURCE_GOOGLE_DRIVE, "pending")>>
    /\ self.sources[1].options = PyStr("optionsB")
    /\ getOptions(self) = PyStr("optionsA")
    /\ srcHist.firstOptions = PyStr("optionsA")

\* The snapshot with the same sources and the same override, and every other
\* field as the constructor leaves it.
StatusInputs(snap) ==
    [SnapshotInit EXCEPT !.sources = snap.sources,
                         !.status_override = snap.status_override,
                         !.status_override_args = snap.status_override_args]

\* C17: status() is a function of the sources and of the override alone: it is
\* the same whatever the purge flags, the status detail, the options and the
\* upload state, and what the call before did to sources or override shows in it.
C17_StatusDependsOnSourcesAndOverride ==
    /\ status(self) = status(StatusInputs(self))
    /\ \A info \in StatusDetails, options \in OptionValues, failure \in FailureInfos :
          status([self EXCEPT !.state_detail = info, !.options = options,
                              !.upload_fail_info = failure,
                              !.upload_source = NoReporter,
                              !.purgeNext = NoPurges]) = status(self)

\* C17 witness: a status detail, options, a purge flag and a failed upload are
\* all set, and status() is what the only record reports.
C17_Witness ==
    /\ self.state_detail = PyStr("waiting")
    /\ self.options = PyStr("optionsC")
    /\ DOMAIN self.purgeNext /= {}
    /\ FailedUpload /\ Truthy(self.upload_fail_info)
    /\ self.status_override.none
    /\ self.sources = <<MakeRecord(SOURCE_GOOGLE_DRIVE, "pending")>>
    /\ status(self) = PyStr("Pending")
    /\ StatusInputs(self) /= self

\* C18: updatePurge(id, b) records the flag whether or not a record for id is
\* present and changes no source record; addSource changes no purge flag; a
\* flag goes away in removeSource(id) and nowhere else. (That getPurges may
\* hold an id for which getSource is None is what the witness shows.)
C18_PurgeLifecycle ==
    [][/\ \A c \in PurgeCalls :
             (lastOp' = "updatePurge" /\ UpdatePurge(c.source, c.purge))
                 => /\ self'.sources = self.sources
                    /\ DOMAIN getPurges(self') = DOMAIN getPurges(self) \cup {c.source}
                    /\ getPurges(self')[c.source] = c.purge
                    /\ \A k \in DOMAIN getPurges(self) \ {c.source} :
                          getPurges(self')[k] = getPurges(self)[k]
       /\ lastOp' = "addSource" => getPurges(self') = getPurges(self)
       /\ \A id \in DOMAIN getPurges(self) \ DOMAIN getPurges(self') :
             /\ lastOp' = "removeSource"
             /\ self' = removeSource(self, id)]_vars

\* C18 witness: a record was added for one source while a purge flag is set
\* for another source, which has no record.
C18_Witness ==
    /\ lastOp = "addSource"
    /\ DOMAIN getPurges(self) = {SOURCE_GOOGLE_DRIVE}
    /\ getPurges(self)[SOURCE_GOOGLE_DRIVE]
    /\ ~HasSource(self, SOURCE_GOOGLE_DRIVE)
    /\ srcHist.added[SOURCE_GOOGLE_DRIVE] = NoRecord
    /\ HasSource(self, SOURCE_HA)

\* No override is set and no record reports a status of its own.
PresenceDecides ==
    /\ self.status_override.none
    /\ \A k \in 1..Len(self.sources) : ~ReportsNonNull(self.sources[k])

\* C19 as stated: with no override and no record reporting a status, status()
\* is "Deleted" if and only if isDeleted(), records of third source identifiers
\* included.
C19_DeletedIffIsDeleted ==
    PresenceDecides => (status(self) = PyStr("Deleted") <=> isDeleted(self))

\* C19 amended: with no override and no record reporting a status, status() is
\* "Deleted" if and only if neither a local nor a remote record is present;
\* isDeleted() implies it, and is equivalent to it as long as no record of a
\* third source identifier is present.
C19_DeletedIffNeitherKnownSource ==
    PresenceDecides
        => /\ status(self) = PyStr("Deleted")
                <=> (~HasSource(self, SOURCE_HA) /\ ~HasSource(self, SOURCE_GOOGLE_DRIVE))
           /\ isDeleted(self) => status(self) = PyStr("Deleted")
           /\ Keys(self.sources) \subseteq {SOURCE_HA, SOURCE_GOOGLE_DRIVE}
                => (status(self) = PyStr("Deleted") <=> isDeleted(self))

\* C19 witness: the local record was removed and a record of a third source is
\* left: the status is "Deleted", the snapshot is not deleted.
C19_Witness ==
    /\ lastOp = "removeSource"
    /\ PresenceDecides
    /\ self.sources = <<MakeRecord(SOURCE_OTHER, "plain")>>
    /\ status(self) = PyStr("Deleted")
    /\ ~isDeleted(self)

\* C20 as stated: uploadInfo() returns no mapping whose progress is 100, also
\* when the reporter advances while the call is under way.
C20_NeverReturns100 ==
    ui.valid => <<"progress", PyInt(100)>> \notin ui.ret.items

\* The reporter was short of 100 at the test and at 100 when the value was read.
C20_Witness ==
    /\ ui.valid
    /\ ui.ret = Dict({<<"progress", PyInt(100)>>})
    /\ self.upload_source = Reporter(100)

====
